---- MODULE Spec2Model ----
(***************************************************************************)
(* Orchestrator (src/index.js): a registry of named tasks with dependency  *)
(* lists, a sequencer, the scheduling loop _runStep/_runTask and the       *)
(* controller run/stop/reset.  JavaScript is single threaded: every public *)
(* call and every completion handler runs to completion, including the     *)
(* nested _runStep calls made by synchronously invoked callbacks, so each  *)
(* of them is one action.  The handlers are written as operators on a      *)
(* record O of the orchestrator's fields.                                  *)
(***************************************************************************)
EXTENDS Integers, Sequences, FiniteSets, TLC

(* ------------------------------ bounds --------------------------------- *)
\* number of calls of add, run, stop and reset in one behaviour
MaxCalls == 4
\* number of times one executor may invoke its completion callback later
MaxCbCalls == 2
\* number of task names passed to one run() call
MaxReq == 2
\* length of a dependency list in the registries SpecGraph starts from
MaxDepLen == 2

Names == {"a", "b", "c"}

\* How an executor behaves when it is called (task.fn.call(this, cb)):
\*   sync       no parameter, returns nothing
\*   throws     no parameter, throws
\*   promise    no parameter, returns a deferred handle
\*   cb         one parameter, invokes it later (or never)
\*   cbSyncOk   one parameter, invokes it with no error before returning
\*   cbSyncErr  one parameter, invokes it with an error before returning
\*   cbThrows   one parameter, throws
\*   cbPromise  one parameter and returns a deferred handle
Kinds == {"sync", "throws", "promise", "cb", "cbSyncOk", "cbSyncErr", "cbThrows", "cbPromise"}

\* executors a name may be registered with: every kind for a, the callback
\* kinds and sync for b, the two plain kinds for c
KindsOf(name) ==
  IF name = "a" THEN Kinds
  ELSE IF name = "b" THEN {"sync", "cb", "cbSyncOk", "cbSyncErr"}
  ELSE {"sync", "cb"}

\* task.fn.length
fnLength(kind) == IF kind \in {"sync", "throws", "promise"} THEN 0 ELSE 1
\* p && p.done
returnsPromise(kind) == kind \in {"promise", "cbPromise"}
\* the executor throws
fnThrows(kind) == kind \in {"throws", "cbThrows"}

\* dependency lists a task may be registered with: a and b may depend on each
\* other (a cycle when both do, an unknown dependency when the other is not
\* registered) and on c, named after the other by a and before it by b (a
\* cycle and an unknown dependency in one graph, met in either order), c on
\* both
DepLists(name) ==
  IF name = "a" THEN {<<>>, <<"b">>, <<"b", "c">>}
  ELSE IF name = "b" THEN {<<>>, <<"a">>, <<"c", "a">>}
  ELSE {<<>>, <<"a", "b">>}

\* argument lists of run()
RECURSIVE SeqsUpTo(_, _)
SeqsUpTo(S, n) ==
  IF n = 0 THEN {<<>>}
  ELSE LET shorter == SeqsUpTo(S, n - 1)
       IN shorter \cup {Append(s, x) : s \in {t \in shorter : Len(t) = n - 1}, x \in S}

NoDup(s) == \A i, j \in 1..Len(s) : i # j => s[i] # s[j]
Range(s) == {s[i] : i \in 1..Len(s)}

ReqLists == {s \in SeqsUpTo(Names, MaxReq) : NoDup(s)}

(* ------------------------------ values --------------------------------- *)
\* an error value; NoErr is a falsy err (undefined / null)
NoErr == [e |-> "none", n |-> ""]
TaskErr(name) == [e |-> "task", n |-> name]
DepErr(name) == [e |-> "dependency", n |-> name]
CycleErr(name) == [e |-> "circular", n |-> name]

\* doneCallback: undefined / null, or the function passed to run
NoCb == "none"
Notifier == "fn"

\* this.tasks[name] === undefined
Absent == [reg |-> FALSE, dep |-> <<>>, kind |-> "sync",
           running |-> FALSE, done |-> FALSE, starts |-> 0]

VARIABLES
  tasks,         \* this.tasks: name -> task object; starts counts its executor's calls
  seq,           \* this.seq
  isRunning,     \* this.isRunning
  doneCallback,  \* this.doneCallback
  handles,       \* closures of started executors that can still signal
  calls,         \* number of calls of add, run, stop and reset so far
  fired,         \* number of invocations of the notifier that run stored last
  thrown,        \* the exception the latest call let escape, NoErr if it returned
  trace,         \* what the latest call did: starts, failures, notifications
  lastOp,        \* the latest call; "stopAgain" is a stop that follows a stop
  asked          \* the names the latest run was called with, and the names it
                 \* handed to the sequencer

vars == <<tasks, seq, isRunning, doneCallback, handles, calls, fired, thrown, trace,
          lastOp, asked>>

\* asked after a call that is not run
NoAsk == [names |-> <<>>, all |-> <<>>]

\* the orchestrator and its observers as one record
Orch == [tasks |-> tasks, seq |-> seq, isRunning |-> isRunning,
         doneCallback |-> doneCallback, handles |-> handles,
         fired |-> fired, trace |-> <<>>]

Install(O) ==
  /\ tasks' = O.tasks
  /\ seq' = O.seq
  /\ isRunning' = O.isRunning
  /\ doneCallback' = O.doneCallback
  /\ handles' = O.handles
  /\ fired' = O.fired
  /\ trace' = O.trace

(* ------------------------------ stop ----------------------------------- *)
\* stop as it would be without line 89 (this.doneCallback = null)
stopKeepsCallback(O, err) ==
  LET O1 == [O EXCEPT !.isRunning = FALSE,
                      !.trace = IF O.isRunning
                                  THEN Append(@, [ev |-> "end", name |-> "", err |-> err,
                                                  cb |-> O.doneCallback, ok |-> TRUE])
                                  ELSE @]
  IN IF O1.doneCallback # NoCb
     THEN [O1 EXCEPT !.fired = @ + 1,
                     !.trace = Append(@, [ev |-> "notify", name |-> "", err |-> err,
                                          cb |-> O1.doneCallback, ok |-> TRUE])]
     ELSE O1

\* an entry of trace
Event(ev, name, err, cb, ok) == [ev |-> ev, name |-> name, err |-> err, cb |-> cb, ok |-> ok]

\* trace entry "end": stop found the orchestrator running, cb is the notifier
\* registered at that moment; "notify": the notifier cb is invoked with err
stop(O, err) ==
  LET O1 == [O EXCEPT !.isRunning = FALSE,
                      !.trace = IF O.isRunning
                                  THEN Append(@, Event("end", "", err, O.doneCallback, TRUE))
                                  ELSE @]
  IN IF O1.doneCallback # NoCb
     THEN [O1 EXCEPT !.doneCallback = NoCb,
                     !.fired = @ + 1,
                     !.trace = Append(@, Event("notify", "", err, O1.doneCallback, TRUE))]
     ELSE O1

(* ------------------------------ allDone -------------------------------- *)
allDone(O) == \A i \in 1..Len(O.seq) : O.tasks[O.seq[i]].done

(* -------------------------- _readyToRunTask ---------------------------- *)
\* index of the dependency at which the loop breaks, 0 when it runs to the end
RECURSIVE firstBlocking(_, _, _)
firstBlocking(O, dep, i) ==
  IF i > Len(dep) THEN 0
  ELSE IF ~O.tasks[dep[i]].reg \/ ~O.tasks[dep[i]].done THEN i
  ELSE firstBlocking(O, dep, i + 1)

\* _readyToRunTask as it would be without the test of t.done (lines 136-139)
readyWithoutDone(O, task) == \A i \in 1..Len(task.dep) : O.tasks[task.dep[i]].reg

\* the value _readyToRunTask returns
_readyToRunTask(O, task) == firstBlocking(O, task.dep, 1) = 0

\* the orchestrator after _readyToRunTask: stop is called for a missing task
readyEffect(O, task) ==
  LET i == firstBlocking(O, task.dep, 1)
  IN IF i # 0 /\ ~O.tasks[task.dep[i]].reg
     THEN stop(O, DepErr(task.dep[i]))
     ELSE O

\* every dependency of the task is registered and done
DepsDone(O, task) ==
  \A i \in 1..Len(task.dep) : O.tasks[task.dep[i]].reg /\ O.tasks[task.dep[i]].done

(* ---------------------- _runStep and _runTask -------------------------- *)
\* task.running = false; task.done = true on the object the closure holds
\* (live: it is still the object in this.tasks; an object that add() replaced
\* or reset() dropped is no longer reachable from the orchestrator)
\* the marks as they would be set without task.running = false
markDoneKeepsRunning(O, live, name) ==
  IF live
  THEN [O EXCEPT !.tasks[name].done = TRUE]
  ELSE O

markDone(O, live, name) ==
  IF live
  THEN [O EXCEPT !.tasks[name].running = FALSE, !.tasks[name].done = TRUE]
  ELSE O

\* the scan condition of _runStep
eligible(O, task) == ~task.done /\ ~task.running /\ _readyToRunTask(O, task)

RECURSIVE _runStep(_)
RECURSIVE runLoop(_, _)
RECURSIVE _runTask(_, _)
RECURSIVE cbFn(_, _, _, _)

\* the closure cb as it would be without line 159 (that._runStep.call(that))
cbFnNoRescan(O, live, name, err) ==
  LET O1 == markDone(O, live, name)
  IN IF err # NoErr
     THEN stop([O1 EXCEPT !.trace = Append(@, Event("fail", name, err, O1.doneCallback, TRUE))],
               err)
     ELSE O1

\* the closure cb of _runTask
cbFn(O, live, name, err) ==
  LET O1 == markDone(O, live, name)
  IN IF err # NoErr
     THEN stop([O1 EXCEPT !.trace = Append(@, Event("fail", name, err, O1.doneCallback, TRUE))],
               err)
     ELSE _runStep(O1)

\* _runTask as it would be without lines 189-190
_runTaskSyncNotDone(O, name) ==
  LET task == O.tasks[name]
      kind == task.kind
      O1 == [O EXCEPT !.tasks[name].running = TRUE,
                      !.tasks[name].starts = @ + 1,
                      !.trace = Append(@, Event("start", name, NoErr, O.doneCallback,
                                                DepsDone(O, task)))]
      O2 == IF fnThrows(kind)
              THEN stop([O1 EXCEPT !.trace = Append(@, Event("fail", name, TaskErr(name),
                                                             O1.doneCallback, TRUE))],
                        TaskErr(name))
            ELSE IF kind = "cbSyncOk" THEN cbFn(O1, TRUE, name, NoErr)
            ELSE IF kind = "cbSyncErr" THEN cbFn(O1, TRUE, name, TaskErr(name))
            ELSE O1
  IN IF returnsPromise(kind)
       THEN [O2 EXCEPT !.handles = @ \cup {[live |-> TRUE, name |-> name, p |-> TRUE,
                          cbs |-> IF fnLength(kind) = 1 THEN MaxCbCalls ELSE 0]}]
     ELSE IF kind = "cb"
       THEN [O2 EXCEPT !.handles = @ \cup {[live |-> TRUE, name |-> name, p |-> FALSE,
                          cbs |-> MaxCbCalls]}]
     ELSE O2

_runTask(O, name) ==
  LET task == O.tasks[name]
      kind == task.kind
      O1 == [O EXCEPT !.tasks[name].running = TRUE,
                      !.tasks[name].starts = @ + 1,
                      !.trace = Append(@, Event("start", name, NoErr, O.doneCallback,
                                                DepsDone(O, task)))]
      \* try { p = task.fn.call(this, cb) } catch (err) { this.stop(...) }
      O2 == IF fnThrows(kind)
              THEN stop([O1 EXCEPT !.trace = Append(@, Event("fail", name, TaskErr(name),
                                                             O1.doneCallback, TRUE))],
                        TaskErr(name))
            ELSE IF kind = "cbSyncOk" THEN cbFn(O1, TRUE, name, NoErr)
            ELSE IF kind = "cbSyncErr" THEN cbFn(O1, TRUE, name, TaskErr(name))
            ELSE O1
  IN IF returnsPromise(kind)
       THEN [O2 EXCEPT !.handles = @ \cup {[live |-> TRUE, name |-> name, p |-> TRUE,
                          cbs |-> IF fnLength(kind) = 1 THEN MaxCbCalls ELSE 0]}]
     ELSE IF fnLength(kind) = 0
       THEN markDone(O2, TRUE, name)
     ELSE IF kind = "cb"
       THEN [O2 EXCEPT !.handles = @ \cup {[live |-> TRUE, name |-> name, p |-> FALSE,
                          cbs |-> MaxCbCalls]}]
     ELSE O2

\* the loop of _runStep as it would be without lines 115-117
runLoopNoAbortCheck(O, i) ==
  IF i > Len(O.seq)
    THEN IF allDone(O) THEN stop(O, NoErr) ELSE O
  ELSE LET task == O.tasks[O.seq[i]]
           try == ~task.done /\ ~task.running
           O1 == IF try THEN readyEffect(O, task) ELSE O
           O2 == IF eligible(O, task) THEN _runTask(O1, O.seq[i]) ELSE O1
       IN runLoop(O2, i + 1)

runLoop(O, i) ==
  IF i > Len(O.seq)
    THEN IF allDone(O) THEN stop(O, NoErr) ELSE O
  ELSE LET task == O.tasks[O.seq[i]]
           try == ~task.done /\ ~task.running
           O1 == IF try THEN readyEffect(O, task) ELSE O
           O2 == IF eligible(O, task) THEN _runTask(O1, O.seq[i]) ELSE O1
       IN IF ~O2.isRunning THEN O2 ELSE runLoop(O2, i + 1)

_runStep(O) == IF ~O.isRunning THEN O ELSE runLoop(O, 1)

(* ------------------------------ sequence ------------------------------- *)
\* lib/sequence: depth-first expansion; dependencies first, then the name if
\* it is not in the output yet; nest is the set of names being expanded
RECURSIVE visit(_, _, _, _)
RECURSIVE visitAll(_, _, _, _, _)

visit(T, name, out, nest) ==
  IF ~T[name].reg THEN [err |-> DepErr(name), out |-> out]
  ELSE IF name \in nest THEN [err |-> CycleErr(name), out |-> out]
  ELSE LET r == visitAll(T, T[name].dep, 1, out, nest \cup {name})
       IN IF r.err # NoErr THEN r
          ELSE [err |-> NoErr,
                out |-> IF name \in Range(r.out) THEN r.out ELSE Append(r.out, name)]

visitAll(T, names, i, out, nest) ==
  IF i > Len(names) THEN [err |-> NoErr, out |-> out]
  ELSE LET r == visit(T, names[i], out, nest)
       IN IF r.err # NoErr THEN r ELSE visitAll(T, names, i + 1, r.out, nest)

sequence(T, names) == visitAll(T, names, 1, <<>>, {})

(* -------------------------------- run ---------------------------------- *)
Registered(T) == {n \in Names : T[n].reg}

\* the orders in which for (i in this.tasks) may enumerate the keys
KeyOrders(T) ==
  {s \in SeqsUpTo(Registered(T), Cardinality(Registered(T))) :
     Len(s) = Cardinality(Registered(T)) /\ NoDup(s)}

\* lines 50-62 as they would be without the merge of lines 50-54
runNamesNoMerge(O, names, keys) == IF Len(names) < 1 THEN keys ELSE names

\* names after lines 50-62: the pending sequence is appended while running,
\* and an empty list means every registered task (in key order keys)
runNames(O, names, keys) ==
  LET merged == IF O.isRunning THEN names \o O.seq ELSE names
  IN IF Len(merged) < 1 THEN keys ELSE merged

\* this.doneCallback after lines 43-49
runCallback(O, notifier) == IF notifier # NoCb THEN notifier ELSE O.doneCallback

\* lines 43-49: a function passed last replaces the stored notifier
storeCallback(O, notifier) ==
  [O EXCEPT !.doneCallback = runCallback(O, notifier),
            !.fired = IF notifier # NoCb THEN 0 ELSE @]

\* line 65 as it would be storing the names instead of the sequencer's output
storeNames(O, names, sorted) == [O EXCEPT !.seq = names]

\* this.seq = seq
storeSeq(O, names, sorted) == [O EXCEPT !.seq = sorted]

\* run as it would be if it cleared the marks of the sequence's tasks before
\* the first pass
runClearsMarks(O, names, notifier, keys) ==
  LET O1 == storeCallback(O, notifier)
      all == runNames(O1, names, keys)
      O2 == storeSeq(O1, all, sequence(O1.tasks, all).out)
      O3 == [O2 EXCEPT !.isRunning = TRUE,
                       !.tasks = [n \in Names |->
                                    IF n \in Range(O2.seq)
                                    THEN [@[n] EXCEPT !.running = FALSE, !.done = FALSE]
                                    ELSE @[n]]]
  IN _runStep(O3)

\* run(names..., notifier?) when the sequencer returns
run(O, names, notifier, keys) ==
  LET O1 == storeCallback(O, notifier)
      all == runNames(O1, names, keys)
      O2 == storeSeq(O1, all, sequence(O1.tasks, all).out)
      O3 == IF ~O2.isRunning
              THEN [O2 EXCEPT !.isRunning = TRUE]
              ELSE O2
  IN _runStep(O3)

\* run(names..., notifier?) when the sequencer fails: the exception leaves run
\* at line 64, after the notifier was stored
runThrows(O, names, notifier, keys) == storeCallback(O, notifier)

\* run as it would be if it swallowed the sequencer's exception and went on
runSwallows(O, names, keys) == TRUE

\* the sequencer returns for these arguments
runReturns(O, names, keys) == sequence(O.tasks, runNames(O, names, keys)).err = NoErr

RunWith(names, notifier, keys) ==
  /\ calls < MaxCalls
  /\ runReturns(Orch, names, keys)
  /\ Install(run(Orch, names, notifier, keys))
  /\ lastOp' = "run"
  /\ thrown' = NoErr
  /\ asked' = [names |-> names, all |-> runNames(Orch, names, keys)]
  /\ calls' = calls + 1

RunThrowsWith(names, notifier, keys) ==
  /\ calls < MaxCalls
  /\ ~runReturns(Orch, names, keys)
  /\ Install(runThrows(Orch, names, notifier, keys))
  /\ lastOp' = "run"
  /\ thrown' = sequence(tasks, runNames(Orch, names, keys)).err
  /\ asked' = [names |-> names, all |-> runNames(Orch, names, keys)]
  /\ calls' = calls + 1

\* the key order matters only to a run that enumerates the keys
KeyChoices(names) ==
  IF Len(names) = 0 /\ (~isRunning \/ Len(seq) = 0) THEN KeyOrders(tasks) ELSE {<<>>}

Run ==
  \E names \in ReqLists, notifier \in {NoCb, Notifier} : \E keys \in KeyChoices(names) :
    RunWith(names, notifier, keys)

RunThrows ==
  \E names \in ReqLists, notifier \in {NoCb, Notifier} : \E keys \in KeyChoices(names) :
    RunThrowsWith(names, notifier, keys)

(* -------------------------------- stop --------------------------------- *)
UserErr == [e |-> "user", n |-> ""]

Stop ==
  \E err \in {NoErr, UserErr} :
    /\ calls < MaxCalls
    /\ Install(stop(Orch, err))
    /\ lastOp' = (IF lastOp \in {"stop", "stopAgain"} THEN "stopAgain" ELSE "stop")
    /\ thrown' = NoErr
    /\ asked' = NoAsk
    /\ calls' = calls + 1

(* -------------------------------- reset -------------------------------- *)
\* the closures of the task objects registered as the given names now hold
\* objects that this.tasks no longer holds
detach(H, names) ==
  {IF h.name \in names THEN [h EXCEPT !.live = FALSE] ELSE h : h \in H}

\* reset as it would be without line 18 (this.seq = [])
resetKeepsSeq(O) ==
  [stop(O, NoErr) EXCEPT !.tasks = [n \in Names |-> Absent],
                         !.isRunning = FALSE,
                         !.doneCallback = NoCb,
                         !.handles = detach(@, Names)]

reset(O) ==
  [stop(O, NoErr) EXCEPT !.tasks = [n \in Names |-> Absent],
                         !.seq = <<>>,
                         !.isRunning = FALSE,
                         !.doneCallback = NoCb,
                         !.handles = detach(@, Names)]

Reset ==
  /\ calls < MaxCalls
  /\ Install(reset(Orch))
  /\ lastOp' = "reset"
  /\ thrown' = NoErr
  /\ asked' = NoAsk
  /\ calls' = calls + 1

(* --------------------------------- add --------------------------------- *)
add(O, name, dep, kind) ==
  [O EXCEPT !.tasks[name] = [reg |-> TRUE, dep |-> dep, kind |-> kind,
                             running |-> FALSE, done |-> FALSE, starts |-> 0],
            !.handles = detach(@, {name})]

Add ==
  \E name \in Names : \E dep \in DepLists(name), kind \in KindsOf(name) :
    /\ calls < MaxCalls
    /\ Install(add(Orch, name, dep, kind))
    /\ calls' = calls + 1
    /\ lastOp' = "add"
    /\ thrown' = NoErr
    /\ asked' = NoAsk

(* ------------------------- completion signals -------------------------- *)
\* a handle that has nothing left to signal is garbage
useCb(O, h) ==
  LET h1 == [h EXCEPT !.cbs = @ - 1]
  IN [O EXCEPT !.handles = (@ \ {h}) \cup (IF h1.cbs > 0 \/ h1.p THEN {h1} ELSE {})]

settle(O, h) ==
  LET h1 == [h EXCEPT !.p = FALSE]
  IN [O EXCEPT !.handles = (@ \ {h}) \cup (IF h1.cbs > 0 THEN {h1} ELSE {})]

\* the executor invokes its completion parameter after it returned
Callback ==
  \E h \in handles : \E err \in {NoErr, TaskErr(h.name)} :
    /\ h.cbs > 0
    /\ Install(cbFn(useCb(Orch, h), h.live, h.name, err))
    /\ lastOp' = "cb"
    /\ thrown' = NoErr
    /\ asked' = NoAsk
    /\ UNCHANGED calls

\* p.done(onFulfilled, ...): the handle resolves
Resolve ==
  \E h \in handles :
    /\ h.p
    /\ Install(_runStep(markDone(settle(Orch, h), h.live, h.name)))
    /\ lastOp' = "resolve"
    /\ thrown' = NoErr
    /\ asked' = NoAsk
    /\ UNCHANGED calls

\* p.done(..., onRejected): the handle rejects
Reject ==
  \E h \in handles :
    /\ h.p
    /\ LET O1 == markDone(settle(Orch, h), h.live, h.name)
           O2 == [O1 EXCEPT !.trace = Append(@, Event("fail", h.name, TaskErr(h.name),
                                                      O1.doneCallback, TRUE))]
       IN Install(stop(O2, TaskErr(h.name)))
    /\ lastOp' = "reject"
    /\ thrown' = NoErr
    /\ asked' = NoAsk
    /\ UNCHANGED calls

(* ---------------------------- specification ---------------------------- *)
Init ==
  /\ tasks = [n \in Names |-> Absent]
  /\ seq = <<>>
  /\ isRunning = FALSE
  /\ doneCallback = NoCb
  /\ handles = {}
  /\ calls = 0
  /\ fired = 0
  /\ thrown = NoErr
  /\ trace = <<>>
  /\ lastOp = "new"
  /\ asked = NoAsk

Next == Add \/ Run \/ RunThrows \/ Stop \/ Reset \/ Callback \/ Resolve \/ Reject

Spec == Init /\ [][Next]_vars

\* The sequencer and the merge of run on every dependency graph over Names:
\* the registry is the one left by any series of add calls with dependency
\* lists of at most MaxDepLen names, executors synchronous or callback-driven.
GraphDeps == {s \in SeqsUpTo(Names, MaxDepLen) : NoDup(s)}

InitGraph ==
  /\ tasks \in [Names -> {Absent} \cup
                  {[reg |-> TRUE, dep |-> d, kind |-> k, running |-> FALSE,
                    done |-> FALSE, starts |-> 0] : d \in GraphDeps, k \in {"sync", "cb"}}]
  /\ seq = <<>>
  /\ isRunning = FALSE
  /\ doneCallback = NoCb
  /\ handles = {}
  /\ calls = 0
  /\ fired = 0
  /\ thrown = NoErr
  /\ trace = <<>>
  /\ lastOp = "new"
  /\ asked = NoAsk

\* two calls of run on the graph, the second one after a first that returned
RunGraph ==
  /\ calls < 2
  /\ \E names \in ReqLists : \E keys \in KeyChoices(names) : RunWith(names, NoCb, keys)

RunThrowsGraph ==
  /\ calls < 1
  /\ \E names \in ReqLists : \E keys \in KeyChoices(names) : RunThrowsWith(names, NoCb, keys)

NextGraph == RunGraph \/ RunThrowsGraph

SpecGraph == InitGraph /\ [][NextGraph]_vars

\* The controller and the completion signals on a registry that add calls
\* have already filled: a returns a deferred handle or takes the completion
\* callback, b takes the callback (and may fail before it returns) and may
\* depend on a, c takes the callback.  The add calls count as one call of
\* the MaxCalls calls of a behaviour.
LoadedTask(dep, kind) ==
  [reg |-> TRUE, dep |-> dep, kind |-> kind, running |-> FALSE, done |-> FALSE, starts |-> 0]

InitLoaded ==
  /\ \E ka \in {"promise", "cb"}, kb \in {"cb", "cbSyncErr"} :
     \E db \in {<<>>, <<"a">>} :
       tasks = [n \in Names |-> IF n = "a" THEN LoadedTask(<<>>, ka)
                                ELSE IF n = "b" THEN LoadedTask(db, kb)
                                ELSE LoadedTask(<<>>, "cb")]
  /\ seq = <<>>
  /\ isRunning = FALSE
  /\ doneCallback = NoCb
  /\ handles = {}
  /\ calls = 1
  /\ fired = 0
  /\ thrown = NoErr
  /\ trace = <<>>
  /\ lastOp = "new"
  /\ asked = NoAsk

NextLoaded == Run \/ Stop \/ Reset \/ Callback \/ Resolve \/ Reject

SpecLoaded == InitLoaded /\ [][NextLoaded]_vars

(* ---------------------- add while a run is active --------------------- *)
\* A registry of three tasks: c returns a deferred handle; a takes the
\* callback and depends on c or on nothing; b depends on c and is synchronous
\* or takes the callback.  Two more calls follow (run, add), and the signals.
InitReadd ==
  /\ \E kb \in {"sync", "cb"}, da \in {<<>>, <<"c">>} :
       tasks = [n \in Names |-> IF n = "a" THEN LoadedTask(da, "cb")
                                ELSE IF n = "b" THEN LoadedTask(<<"c">>, kb)
                                ELSE LoadedTask(<<>>, "promise")]
  /\ seq = <<>>
  /\ isRunning = FALSE
  /\ doneCallback = NoCb
  /\ handles = {}
  /\ calls = 2
  /\ fired = 0
  /\ thrown = NoErr
  /\ trace = <<>>
  /\ lastOp = "new"
  /\ asked = NoAsk

NextReadd == Run \/ Add \/ Callback \/ Resolve

SpecReadd == InitReadd /\ [][NextReadd]_vars

(* ------------------------- runs that succeed -------------------------- *)
\* An acyclic registry with every dependency registered (a first, then b,
\* then c), run called up to twice, no stop and no reset, and the signals of
\* success: a callback invoked with no error, a handle that resolves.
InitLive ==
  /\ \E ka \in {"cb", "cbSyncOk"}, kb \in {"sync", "cb"}, kc \in {"cb", "promise"} :
     \E db \in {<<>>, <<"a">>}, dc \in {<<>>, <<"a", "b">>} :
       tasks = [n \in Names |-> IF n = "a" THEN LoadedTask(<<>>, ka)
                                ELSE IF n = "b" THEN LoadedTask(db, kb)
                                ELSE LoadedTask(dc, kc)]
  /\ seq = <<>>
  /\ isRunning = FALSE
  /\ doneCallback = NoCb
  /\ handles = {}
  /\ calls = 0
  /\ fired = 0
  /\ thrown = NoErr
  /\ trace = <<>>
  /\ lastOp = "new"
  /\ asked = NoAsk

RunLive == calls < 2 /\ Run

\* the executor invokes its completion parameter with no error
CallbackOk ==
  \E h \in handles :
    /\ h.cbs > 0
    /\ Install(cbFn(useCb(Orch, h), h.live, h.name, NoErr))
    /\ lastOp' = "cb"
    /\ thrown' = NoErr
    /\ asked' = NoAsk
    /\ UNCHANGED calls

NextLive == RunLive \/ CallbackOk \/ Resolve

SpecLive == InitLive /\ [][NextLive]_vars

(* --------------------------- add, call forms --------------------------- *)
\* An argument of add: absent (undefined, or a falsy name), a task name, a
\* list of dependency names, or a function of the given kind.
NoArg == [t |-> "none", name |-> "", list |-> <<>>, kind |-> ""]
NameArg(n) == [t |-> "name", name |-> n, list |-> <<>>, kind |-> ""]
ListArg(l) == [t |-> "list", name |-> "", list |-> l, kind |-> ""]
FnArg(k) == [t |-> "fn", name |-> "", list |-> <<>>, kind |-> k]

\* lines 24-27: without a third argument the second one is the executor
addShift(dep, fn) ==
  IF fn = NoArg THEN [fn |-> dep, dep |-> NoArg] ELSE [fn |-> fn, dep |-> dep]

\* line 28: !name || !fn (an array is truthy, also the empty one)
addFails(name, dep, fn) == name = NoArg \/ addShift(dep, fn).fn = NoArg

\* How the stored fn behaves when _runTask calls task.fn.call(this, cb): a
\* function as its kind says; an array has no method call, so line 162 throws
\* a TypeError, and its length is task.fn.length
fnKind(fn) ==
  IF fn.t = "fn" THEN fn.kind
  ELSE IF Len(fn.list) = 0 THEN "throws" ELSE "cbThrows"

\* dep || []
depOrEmpty(dep) == IF dep.t = "list" THEN dep.list ELSE <<>>

ConfigErr == [e |-> "config", n |-> ""]

\* the call supplies no function
NoExecutor(dep, fn) == dep.t # "fn" /\ fn.t # "fn"

\* the call forms: add(), add(name), add(name, fn), add(name, list),
\* add(name, list, fn), add(undefined, fn), add(undefined, list, fn)
AddForms ==
  LET lists == {ListArg(l) : l \in {<<>>, <<"a">>, <<"a", "b">>}}
      fns == {FnArg(k) : k \in {"sync", "cb"}}
      names == {NameArg(n) : n \in Names}
  IN  ((names \cup {NoArg}) \X {NoArg} \X {NoArg})
      \cup ((names \cup {NoArg}) \X fns \X {NoArg})
      \cup (names \X lists \X {NoArg})
      \cup ((names \cup {NoArg}) \X lists \X fns)

\* the latest call as the claims read it
addLabel(name, dep, fn) ==
  IF name = NoArg THEN "addNoName"
  ELSE IF NoExecutor(dep, fn) THEN "addNoFn"
  ELSE "add"

\* add returns: the task object is stored
AddForm ==
  \E f \in AddForms :
    /\ calls < MaxCalls
    /\ ~addFails(f[1], f[2], f[3])
    /\ LET a == addShift(f[2], f[3])
       IN Install(add(Orch, f[1].name, depOrEmpty(a.dep), fnKind(a.fn)))
    /\ lastOp' = addLabel(f[1], f[2], f[3])
    /\ thrown' = NoErr
    /\ asked' = NoAsk
    /\ calls' = calls + 1

\* add throws at line 29: nothing is stored
AddFormThrows ==
  \E f \in AddForms :
    /\ calls < MaxCalls
    /\ addFails(f[1], f[2], f[3])
    /\ Install(Orch)
    /\ lastOp' = addLabel(f[1], f[2], f[3])
    /\ thrown' = ConfigErr
    /\ asked' = NoAsk
    /\ calls' = calls + 1

NextAdd == AddForm \/ AddFormThrows

SpecAdd == Init /\ [][NextAdd]_vars

(* ------------------------- reading the trace --------------------------- *)
Events(tr, ev) == {i \in 1..Len(tr) : tr[i].ev = ev}

\* the names of the tasks whose executor the call invoked, in order
RECURSIVE StartedSeq(_)
StartedSeq(tr) ==
  IF tr = <<>> THEN <<>>
  ELSE IF Head(tr).ev = "start" THEN <<Head(tr).name>> \o StartedSeq(Tail(tr))
  ELSE StartedSeq(Tail(tr))

(* ------------------------------- C1 ------------------------------------ *)
\* C1: whenever an executor is invoked, every task named in that task's
\* dependency list is registered and marked done at that moment.
C1_DepsDoneAtStart == \A i \in Events(trace, "start") : trace[i].ok

\* a completion signal arrived later and let a task with dependencies start
C1_Witness ==
  /\ lastOp \in {"cb", "resolve"}
  /\ \E i \in Events(trace, "start") :
       /\ tasks[trace[i].name].dep # <<>>
       /\ trace[i].ok

(* ------------------------------- C2 ------------------------------------ *)
\* C2: a call in which a started task reports failure leaves the running flag
\* false, invokes the notifier registered at that moment with that error
\* directly after the failure, and invokes no executor after the failure; and
\* no executor is invoked by a later call unless the orchestrator is running
\* again (only run sets the flag).
C2_FailureAborts ==
  [][ /\ \A i \in Events(trace', "fail") :
           /\ ~isRunning'
           /\ \A j \in Events(trace', "start") : j < i
           /\ trace'[i].cb # NoCb =>
                /\ \E j \in Events(trace', "notify") :
                     j > i /\ trace'[j].err = trace'[i].err /\ trace'[j].cb = trace'[i].cb
                /\ Cardinality(Events(trace', "notify")) = 1
      /\ Events(trace', "start") # {} => (isRunning \/ lastOp' = "run")
    ]_vars

\* the failure is signalled synchronously during a scan, a notifier is
\* registered, and a task later in the sequence was ready to start
C2_Witness ==
  /\ lastOp = "run"
  /\ \E i \in Events(trace, "fail") :
       /\ trace[i].cb # NoCb
       /\ \E k \in 1..Len(seq) :
            /\ seq[k] # trace[i].name
            /\ tasks[seq[k]].dep = <<>>
            /\ tasks[seq[k]].starts = 0
            /\ \E m \in 1..(k - 1) : seq[m] = trace[i].name

(* ------------------------------- C3 ------------------------------------ *)
\* C3: when a running orchestrator is stopped (all done, a failure, or stop)
\* while a notifier is registered, that call invokes the notifier exactly
\* once; and no notifier is ever invoked a second time.
C3_NotifiedExactlyOnce ==
  [][ /\ fired' <= 1
      /\ \A i \in Events(trace', "end") :
           trace'[i].cb # NoCb =>
             /\ Cardinality(Events(trace', "notify")) = 1
             /\ \A j \in Events(trace', "notify") : j = i + 1 /\ trace'[j].cb = trace'[i].cb
    ]_vars

\* a run with a notifier ended and notified once, a task of it is done, and
\* a further stop call followed that invoked nothing
C3_Witness == lastOp = "stop" /\ fired = 1 /\ trace = <<>> /\ \E n \in Names : tasks[n].done

(* ------------------------------- C4 ------------------------------------ *)
\* C4: a stop call that directly follows a stop call invokes nothing and
\* leaves the running flag false and no notifier registered; the first stop
\* call invokes a registered notifier once.
C4_StopIdempotent ==
  [][ /\ lastOp' = "stopAgain" =>
           /\ Events(trace', "notify") = {}
           /\ ~isRunning'
           /\ doneCallback' = NoCb
      /\ (lastOp' = "stop" /\ doneCallback # NoCb) =>
           /\ Cardinality(Events(trace', "notify")) = 1
           /\ doneCallback' = NoCb
    ]_vars

\* the second of two stop calls, after a run that registered a notifier
C4_Witness == lastOp = "stopAgain" /\ fired = 1 /\ ~isRunning /\ doneCallback = NoCb

(* --------------------------- dependency graph -------------------------- *)
\* the names reachable from S through dependency lists, S included
RECURSIVE Closure(_, _)
Closure(T, S) ==
  LET more == S \cup UNION {Range(T[n].dep) : n \in S}
  IN IF more = S THEN S ELSE Closure(T, more)

\* the direct and transitive dependencies of n
TransDeps(T, n) == Closure(T, Range(T[n].dep))

Cyclic(T, S) == \E n \in Closure(T, S) : n \in TransDeps(T, n)
AllRegistered(T, S) == \A n \in Closure(T, S) : T[n].reg
MissingDep(T, S) ==
  \E n \in Closure(T, S) : T[n].reg /\ \E d \in Range(T[n].dep) : ~T[d].reg

Index(s, x) == CHOOSE i \in 1..Len(s) : s[i] = x

(* ------------------------------- C5 ------------------------------------ *)
\* the names handed to the sequencer reach no cycle and no unregistered name
GoodGraph(T, S) == AllRegistered(T, S) /\ ~Cyclic(T, S)

\* C5: when the names handed to the sequencer reach no cycle and no
\* unregistered name, run computes a sequence that holds exactly these names
\* and their transitive dependencies, each once, every task after all of its
\* dependencies.
C5_SequenceTopological ==
  (lastOp = "run" /\ GoodGraph(tasks, Range(asked.all))) =>
    /\ thrown = NoErr
    /\ NoDup(seq)
    /\ Range(seq) = Closure(tasks, Range(asked.all))
    /\ \A i \in 1..Len(seq) : \A d \in Range(tasks[seq[i]].dep) :
         \E j \in 1..(i - 1) : seq[j] = d

\* a sequence of three tasks in which one task is a dependency of two others
C5_Witness ==
  /\ lastOp = "run" /\ thrown = NoErr /\ Len(seq) = 3
  /\ \E n \in Names : Cardinality({m \in Names : n \in Range(tasks[m].dep)}) = 2

(* ------------------------------- C6 ------------------------------------ *)
\* the names handed to the sequencer reach a cycle
C6_Cycle == lastOp' = "run" /\ Cyclic(tasks, Range(asked'.all))

\* what a failed run leaves: no executor invoked, tasks, sequence and running
\* flag as they were
RunsNothing ==
  /\ Events(trace', "start") = {}
  /\ tasks' = tasks /\ seq' = seq /\ isRunning' = isRunning

\* every name handed to the sequencer is a registered task
AskedTasks == \A n \in Range(asked'.all) : tasks[n].reg

\* C6 as stated: whenever the requested tasks reach a cycle, run fails with
\* the circular-dependency error and invokes no executor.
C6_Original ==
  [][(C6_Cycle /\ AskedTasks) => (thrown'.e = "circular" /\ RunsNothing)]_vars

\* C6: when the names handed to the sequencer reach a cycle, run fails and the
\* call invokes no executor and leaves tasks, sequence and running flag as
\* they were; the failure is the circular-dependency error when every name
\* reached is registered (an unregistered name met before the cycle closes
\* fails the expansion with the dependency error instead).
C6_CycleRunsNothing ==
  [][ C6_Cycle =>
        /\ thrown' # NoErr
        /\ AllRegistered(tasks, Range(asked'.all)) => thrown'.e = "circular"
        /\ RunsNothing
    ]_vars

\* run failed on a cycle while a task outside the cycle, also asked for, was
\* ready to start
C6_Witness ==
  /\ lastOp = "run" /\ thrown.e = "circular"
  /\ \E n \in Range(asked.all) :
       tasks[n].reg /\ tasks[n].dep = <<>> /\ tasks[n].starts = 0 /\ ~Cyclic(tasks, {n})

(* ------------------------------- C7 ------------------------------------ *)
\* a task reached from the names handed to the sequencer names a dependency
\* that is not registered
C7_Missing == lastOp' = "run" /\ MissingDep(tasks, Range(asked'.all))

\* C7 as stated: whenever a requested task reaches an unregistered
\* dependency, run fails with the dependency error and invokes no executor.
C7_Original ==
  [][(C7_Missing /\ AskedTasks) => (thrown'.e = "dependency" /\ RunsNothing)]_vars

\* C7: when a task reached from the names handed to the sequencer names a
\* dependency that is not registered, run fails and the call invokes no
\* executor and leaves tasks, sequence and running flag as they were; the
\* failure is the dependency error when no cycle is reached (a cycle closed
\* before the unregistered name is met fails the expansion with the
\* circular-dependency error instead).
C7_MissingRunsNothing ==
  [][ C7_Missing =>
        /\ thrown' # NoErr
        /\ ~Cyclic(tasks, Range(asked'.all)) => thrown'.e = "dependency"
        /\ RunsNothing
    ]_vars

\* run failed on an unregistered dependency while a task whose dependencies
\* are all registered, also asked for, was ready to start
C7_Witness ==
  /\ lastOp = "run" /\ thrown.e = "dependency"
  /\ \E m \in Names : tasks[m].reg /\ ~tasks[thrown.n].reg /\ thrown.n \in Range(tasks[m].dep)
  /\ \E n \in Range(asked.all) : tasks[n].reg /\ tasks[n].dep = <<>> /\ tasks[n].starts = 0

(* ------------------------------- C8 ------------------------------------ *)
\* C8: run returns normally, it never lets an error escape to its caller
\* (stated for calls whose requested names are all registered: an unknown
\* dependency, a cycle, a throwing executor).
C8_RunNeverThrows ==
  (lastOp = "run" /\ \A n \in Range(asked.all) : tasks[n].reg) => thrown = NoErr

(* ------------------------------- C9 ------------------------------------ *)
AllSync(T, s) == \A i \in 1..Len(s) : T[s[i]].kind = "sync"

RECURSIVE NotDone(_, _)
NotDone(T, s) ==
  IF s = <<>> THEN <<>>
  ELSE IF T[Head(s)].done THEN NotDone(T, Tail(s))
  ELSE <<Head(s)>> \o NotDone(T, Tail(s))

\* what C9 says of the end of the call: all done, stopped, notifier told no error
C9_Completes ==
  /\ \A i \in 1..Len(seq') : tasks'[seq'[i]].done
  /\ ~isRunning'
  /\ Events(trace', "fail") = {}
  /\ \A i \in Events(trace', "end") :
       trace'[i].cb # NoCb =>
         \E j \in Events(trace', "notify") : trace'[j].err = NoErr

\* C9 as stated: a run whose sequence holds only synchronous tasks starts
\* every task of the sequence, in sequence order, and completes.
C9_Original ==
  [][ (lastOp' = "run" /\ thrown' = NoErr /\ AllSync(tasks, seq')) =>
        /\ StartedSeq(trace') = seq'
        /\ C9_Completes
    ]_vars

\* C9 amended: a run whose sequence holds only synchronous tasks starts every
\* task of the sequence that is not done yet, in sequence order, and completes.
C9_SyncRunCompletes ==
  [][ (lastOp' = "run" /\ thrown' = NoErr /\ AllSync(tasks, seq')) =>
        /\ StartedSeq(trace') = NotDone(tasks, seq')
        /\ C9_Completes
    ]_vars

\* one run started two synchronous tasks, one depending on the other, and
\* told the notifier
C9_Witness ==
  /\ lastOp = "run" /\ thrown = NoErr /\ AllSync(tasks, seq)
  /\ Len(StartedSeq(trace)) = 2 /\ StartedSeq(trace) = seq
  /\ tasks[seq[2]].dep = <<seq[1]>>
  /\ Events(trace, "notify") # {}

(* ------------------------------- C10 ----------------------------------- *)
\* what C10 says besides the order: the running flag stays set over the
\* sequencing, every task of the previous sequence and every requested task
\* is in the new one, and no task that was running or done is started
C10_Merges ==
  /\ Range(seq) \subseteq Range(seq')
  /\ Range(asked'.names) \subseteq Range(seq')
  /\ asked'.all = asked'.names \o seq
  /\ \A i \in Events(trace', "start") :
       ~tasks[trace'[i].name].running /\ ~tasks[trace'[i].name].done

\* C10 as stated: in the sequence of a run called while running, every newly
\* requested task (one that the previous sequence did not hold) comes ahead of
\* every task of the previous sequence that was not started yet.
C10_Original ==
  [][ (lastOp' = "run" /\ thrown' = NoErr /\ isRunning) =>
        /\ C10_Merges
        /\ \A n \in Range(asked'.names) \ Range(seq) :
             \A q \in Range(seq) \ Range(asked'.names) :
               tasks[q].starts = 0 => Index(seq', n) < Index(seq', q)
    ]_vars

\* C10 amended: every newly requested task comes ahead of every task of the
\* previous sequence that was not started yet and is not a direct or
\* transitive dependency of a newly requested task.
C10_MergeAhead ==
  [][ (lastOp' = "run" /\ thrown' = NoErr /\ isRunning) =>
        /\ C10_Merges
        /\ \A n \in Range(asked'.names) : \A q \in Range(seq) \ Range(asked'.names) :
             (tasks[q].starts = 0 /\ q \notin Closure(tasks, Range(asked'.names))) =>
               Index(seq', n) < Index(seq', q)
    ]_vars

\* a second run while the first is active put a new task ahead of a pending
\* one, and a task of the first run is still running
C10_Witness ==
  /\ lastOp = "run" /\ thrown = NoErr /\ calls = 2 /\ isRunning /\ Len(seq) = 3
  /\ asked.names = <<seq[1]>> /\ Len(asked.all) = 3
  /\ StartedSeq(trace) = <<seq[1]>>
  /\ tasks[seq[2]].running
  /\ tasks[seq[3]].starts = 0 /\ tasks[seq[3]].dep = <<seq[2]>>

(* ------------------------------- C11 ----------------------------------- *)
\* the steps that are completion signals
Signals == {"cb", "resolve", "reject"}

\* the closure that signalled in this step
Signalled == CHOOSE h \in handles \ handles' : TRUE

\* no executor invoked, no notifier invoked, running flag as it was
Inert ==
  /\ Events(trace', "start") = {}
  /\ Events(trace', "notify") = {}
  /\ isRunning' = isRunning

\* C11: a completion signal that arrives while the orchestrator is not
\* running, or from a task that the sequence of the active run does not hold
\* (a task of a run that ended), starts no task, invokes no notifier and
\* leaves the running flag as it is.
C11_LateSignalsInert ==
  [][ (/\ lastOp' \in Signals
       /\ handles \ handles' # {}
       /\ (~isRunning \/ Signalled.name \notin Range(seq))) => Inert
    ]_vars

(* ------------------------------- C12 ----------------------------------- *)
\* C12: a call of add without a name or without an executor throws and
\* leaves the registry as it was.
C12_AddRejects ==
  [][ lastOp' \in {"addNoName", "addNoFn"} => (thrown' = ConfigErr /\ tasks' = tasks) ]_vars

(* ------------------------------- C13 ----------------------------------- *)
\* C13: reset leaves the registry empty, the sequence empty, the running flag
\* false and no notifier registered; it invokes a notifier that was
\* registered once, with no error, and invokes nothing otherwise.
C13_ResetInitial ==
  [][ lastOp' = "reset" =>
        /\ tasks' = [n \in Names |-> Absent]
        /\ seq' = <<>>
        /\ ~isRunning'
        /\ doneCallback' = NoCb
        /\ Cardinality(Events(trace', "notify")) = (IF doneCallback # NoCb THEN 1 ELSE 0)
        /\ \A i \in Events(trace', "notify") :
             trace'[i].err = NoErr /\ trace'[i].cb = doneCallback
        /\ Events(trace', "start") = {}
    ]_vars

\* reset ended an active run that had a notifier and a task still to signal
C13_Witness ==
  /\ lastOp = "reset"
  /\ Events(trace, "end") # {} /\ Events(trace, "notify") # {}
  /\ \E h \in handles : ~h.live

(* ------------------------------- C14 ----------------------------------- *)
\* C14 as stated, its safety part: when a call that made a scheduling pass
\* leaves the run active, some started task is still to signal.  (In a state
\* that violates it every started task has signalled success, the run has
\* not ended, and no further pass is due.)
C14_Original == (isRunning /\ lastOp \in {"run", "cb", "resolve"}) => handles # {}

\* the run has ended in success: every task of the sequence is done, the
\* running flag is false, and the call that ended the run passed no error
\* and told the notifier that was registered
EndedInSuccess ==
  /\ ~isRunning
  /\ \A i \in 1..Len(seq) : tasks[seq[i]].done
  /\ \E i \in Events(trace, "end") :
       /\ trace[i].err = NoErr
       /\ trace[i].cb # NoCb =>
            \E j \in Events(trace, "notify") : trace[j].err = NoErr /\ trace[j].cb = trace[i].cb

\* every started task eventually signals success
AllSignal == \A n \in Names : tasks[n].running ~> tasks[n].done

\* C14 on a registry that no add changes: with no stop and no reset, if every
\* started task eventually signals success then a run that is active
\* eventually ends in success, whatever the order of the signals.
C14_RunEnds == AllSignal => (isRunning ~> EndedInSuccess)

\* a chain of three tasks that signal after their executor returned: each
\* signal started the next task, the last one ended the run and the notifier
\* was told
C14_Witness ==
  /\ lastOp \in {"cb", "resolve"}
  /\ EndedInSuccess
  /\ fired = 1
  /\ Len(seq) = 3
  /\ tasks["a"].kind = "cb"
  /\ tasks["b"].kind = "cb" /\ tasks["b"].dep = <<"a">>
  /\ tasks["c"].dep = <<"a", "b">>

(* ------------------------------- C15 ----------------------------------- *)
\* the step made a scheduling pass: run returned, or a success signal arrived
\* while the orchestrator was running
PassMade ==
  \/ lastOp' = "run" /\ thrown' = NoErr
  \/ /\ lastOp' \in {"cb", "resolve"}
     /\ handles \ handles' # {}
     /\ isRunning
     /\ Events(trace', "fail") = {}

\* the task is not started, not running, and its dependencies are all done
Startable(T, n) ==
  /\ ~T[n].done /\ ~T[n].running
  /\ \A i \in 1..Len(T[n].dep) : T[T[n].dep[i]].reg /\ T[T[n].dep[i]].done

\* every executor the step invoked belongs to a task that was neither done
\* nor running, and was invoked with all dependencies done
StartsOnlyStartable ==
  \A i \in Events(trace', "start") :
    /\ trace'[i].ok
    /\ ~tasks[trace'[i].name].done /\ ~tasks[trace'[i].name].running

\* C15 as stated: after a pass that leaves the orchestrator running no task
\* of the sequence is startable, and the pass started startable tasks only.
C15_Original ==
  [][ PassMade =>
        /\ StartsOnlyStartable
        /\ isRunning' => \A i \in 1..Len(seq') : ~Startable(tasks', seq'[i])
    ]_vars

(* ------------------------------- C16 ----------------------------------- *)
\* C16: when the completion callback of a task is invoked while the deferred
\* handle its executor returned is still pending, the task's done mark stays
\* as it was and no executor is invoked.
C16_HandleTakesPrecedence ==
  [][ (/\ lastOp' = "cb"
       /\ handles \ handles' # {}
       /\ Signalled.p /\ Signalled.live) =>
        /\ tasks'[Signalled.name].done = tasks[Signalled.name].done
        /\ Events(trace', "start") = {}
    ]_vars

(* ------------------------------- C17 ----------------------------------- *)
\* C17: a completion signal of a task that is already done invokes no
\* executor and no notifier and leaves the running flag as it is.
C17_SecondSignalNoOp ==
  [][ (/\ lastOp' \in Signals
       /\ handles \ handles' # {}
       /\ Signalled.live
       /\ tasks[Signalled.name].done) => Inert
    ]_vars

(* ------------------------------- C18 ----------------------------------- *)
\* no task is both running and done, and a task that is running or done was
\* started
MarksConsistent ==
  \A n \in Names :
    /\ ~(tasks[n].running /\ tasks[n].done)
    /\ (tasks[n].running \/ tasks[n].done) => (tasks[n].reg /\ tasks[n].starts >= 1)

\* a step that is not add or reset moves the marks of a task forward only:
\* not-started to running by a start, running to done, done stays done
MarksMoveForward ==
  lastOp' \notin {"add", "reset"} =>
    \A n \in Names :
      /\ tasks[n].done => (tasks'[n].done /\ ~tasks'[n].running)
      /\ tasks[n].running => (tasks'[n].running \/ tasks'[n].done)
      /\ (~tasks[n].running /\ ~tasks[n].done /\ (tasks'[n].running \/ tasks'[n].done)) =>
           \E i \in Events(trace', "start") : trace'[i].name = n

\* C18: in every reachable state no task is both running and done and a task
\* marked running or done was started; run, stop and the completion signals
\* move a task's marks from not-started to running to done only.
C18_RunStateForward == []MarksConsistent /\ [][MarksMoveForward]_vars

\* a run called after a stop includes a task that is done and one that is
\* still running from the run before: neither is started again
C18_Witness ==
  /\ lastOp = "run" /\ thrown = NoErr /\ calls = MaxCalls
  /\ \E n, m \in Range(seq) :
       /\ tasks[n].done /\ tasks[n].starts = 1
       /\ tasks[m].running /\ tasks[m].starts = 1
       /\ Events(trace, "start") = {}

(* ------------------------------- C19 ----------------------------------- *)
\* run and stop leave the marks of every task that the call does not start
\* as they are, and start only tasks that were never started
MarksKept ==
  lastOp' \in {"run", "stop", "stopAgain"} =>
    /\ \A i \in Events(trace', "start") :
         /\ tasks[trace'[i].name].starts = 0
         /\ ~tasks[trace'[i].name].running /\ ~tasks[trace'[i].name].done
    /\ \A n \in Names :
         (\A i \in Events(trace', "start") : trace'[i].name # n) =>
           (tasks'[n].running = tasks[n].running /\ tasks'[n].done = tasks[n].done)

\* C19: the executor of a task is invoked at most once per registration;
\* run and stop never clear the running and done marks, and a run whose
\* sequence holds a done task does not invoke its executor again.
C19_AtMostOnce == [](\A n \in Names : tasks[n].starts <= 1) /\ [][MarksKept]_vars

\* a second run asks for a task that the first run completed: it starts
\* nothing and ends at once
C19_Witness ==
  /\ lastOp = "run" /\ thrown = NoErr /\ ~isRunning
  /\ Len(asked.names) = 1 /\ seq = asked.names
  /\ tasks[seq[1]].done /\ tasks[seq[1]].starts = 1
  /\ Events(trace, "start") = {} /\ Events(trace, "end") # {}

(* ------------------------------- C20 ----------------------------------- *)
\* an executor of this kind reports failure every time it is called: a task
\* registered with it has never completed successfully
AlwaysFails(kind) == kind \in {"throws", "cbThrows", "cbSyncErr"}

\* C20: no executor is invoked for a task that depends on a task which can
\* only have failed.
C20_FailedNeverSatisfies ==
  [][ \A i \in Events(trace', "start") :
        \A d \in Range(tasks[trace'[i].name].dep) : ~AlwaysFails(tasks[d].kind)
    ]_vars

====
